---- MODULE Spec2Model ----
(***************************************************************************)
(* PI Lead Monitor: the lead page (useState fields, effects, handlers),    *)
(* its load function, the two-tier fetcher fetchPagedFromViewOrArticles    *)
(* and the remote data service the fetcher queries.                        *)
(*                                                                         *)
(* JavaScript null is the string Null for text fields and the empty tuple  *)
(* for numbers, timestamps and messages: <<>> is null, <<v>> is v.         *)
(***************************************************************************)
EXTENDS Integers, Sequences, FiniteSets, TLC

VARIABLES
    variant,      \* which page variant runs: without or with the status filter
    hasWindow,    \* typeof window !== "undefined"
    hasEnv,       \* NEXT_PUBLIC_SUPABASE_URL and NEXT_PUBLIC_SUPABASE_ANON_KEY are both set
    _client,      \* supabaseClient's cached client, Null until constructed
    created,      \* number of createClient calls so far
    got,          \* direct calls of getSupabase: what each found and returned, oldest first
    mounted,      \* the component has run its mount effects
    unmounted,    \* the component was dismantled
    minScore, severity, caseType, status,   \* filters (useState)
    search,       \* search text, a sequence of characters
    sortKey, sortDir,   \* client-side sort (useState)
    jumped,       \* <<value typed into the Jump input, page number computed>>, in halves
    page,         \* 1-based page number
    autoRefresh,  \* auto-refresh checkbox; the interval exists while TRUE
    rows, totalCount, loading, err, source,  \* displayed result (useState)
    timers,       \* the closures of the intervals set and not cleared
    inflight,     \* the fetch calls awaiting a response, oldest first
    issued,       \* number of fetch calls made so far
    res,          \* <<outcome>> of the fetch whose await resumed in this step
    returned,     \* direct calls of the fetcher: page -> outcomes, oldest first
    events,       \* number of user and timer events so far
    last          \* what the latest step of the page was

vars == <<variant, hasWindow, hasEnv, _client, created, mounted, unmounted, minScore,
          severity, caseType, status, search, sortKey, sortDir, jumped, got, page,
          autoRefresh, rows, totalCount, loading, err, source, timers, inflight,
          issued, res, returned, events, last>>

buildVars == <<variant, hasWindow, hasEnv>>
clientVars == <<_client, created>>
\* what load, the fetch and the filters never touch
asideVars == <<sortKey, sortDir, jumped, got>>
filterVars == <<minScore, severity, caseType, status>>
shownVars == <<rows, totalCount, loading, err, source>>

Null == "null"

(***************************************************************************)
(* Bounds                                                                  *)
(***************************************************************************)
MaxPage == 3        \* pages the direct calls and the Jump input range over
MaxEvents == 2      \* user and timer events in one run
MaxRepeat == 1      \* direct calls for a page called before
NumCore == 120      \* articles that match {minScore 70, severity fatal}
NumExtra == 10      \* further articles, each failing one predicate

PAGE_SIZE == 50

(***************************************************************************)
(* Filter values the controls offer (a subset of each list; the min-score  *)
(* input is a free number input, negative values included).                *)
(***************************************************************************)
SEVERITIES == {"all", "fatal"}
CASE_TYPES == {"all", "truck"}
STATUSES == {"all", "new"}
MinScores == {-1, 0, 70}
TypedScores == {0, 70}      \* the values typed into the min-score input
Variants == {"basic", "status"}        \* pages that call fetchPagedFromViewOrArticles
Fetchers == Variants \cup {"paged"}    \* "paged" is the page that calls fetchPaged

(***************************************************************************)
(* Remote data: the articles table and the view over it.                   *)
(***************************************************************************)
TieA == 105
TieB == 2

T0(i) == (i * 37) % 127

\* Triage timestamps are distinct, except that TieA and TieB were triaged
\* in the same batch and share one.
TriagedAt(i) == IF i = TieB THEN T0(TieA) ELSE T0(i)

CoreArticle(i) ==
    [id |-> i,
     severity |-> "fatal",
     case_type |-> IF i % 2 = 0 THEN "truck" ELSE "auto",
     lead_score |-> <<70 + (i % 30)>>,
     triaged_at |-> <<TriagedAt(i)>>,
     status |-> IF i % 3 = 0 THEN "new" ELSE "reviewing"]

ExtraArticle(i) ==
    LET k == (i - NumCore) % 10
        base == [id |-> i, severity |-> "fatal", case_type |-> "truck",
                 lead_score |-> <<80>>, triaged_at |-> <<TriagedAt(i)>>,
                 status |-> "new"]
    IN  CASE k = 1 -> [base EXCEPT !.lead_score = <<69>>]
          [] k = 2 -> [base EXCEPT !.lead_score = <<>>]
          [] k = 3 -> [base EXCEPT !.severity = "injury"]
          [] k = 4 -> [base EXCEPT !.severity = Null]
          [] k = 5 -> [base EXCEPT !.triaged_at = <<>>]
          [] k = 6 -> [base EXCEPT !.triaged_at = <<>>, !.lead_score = <<40>>]
          [] k = 7 -> [base EXCEPT !.severity = "serious_injury", !.case_type = Null]
          [] k = 8 -> [base EXCEPT !.lead_score = <<0>>, !.status = Null]
          [] k = 9 -> [base EXCEPT !.lead_score = <<-5>>, !.case_type = "auto"]
          [] OTHER -> [base EXCEPT !.severity = "unknown", !.status = "closed"]

ArticleIds == 1..(NumCore + NumExtra)

Article == [i \in ArticleIds |-> IF i <= NumCore THEN CoreArticle(i) ELSE ExtraArticle(i)]

\* The view holds the triaged articles only.
InTable(table, i) ==
    IF table = "v_triage_live" THEN Article[i].triaged_at # <<>> ELSE TRUE

Tables == {"v_triage_live", "articles"}
TieOrders == {"asc", "desc"}

\* ORDER BY triaged_at DESC: a null timestamp sorts before every value;
\* rows with equal timestamps come in an order the service picks (tie).
Before(a, b, tie) ==
    LET ta == Article[a].triaged_at
        tb == Article[b].triaged_at
    IN  IF ta = tb THEN (IF tie = "asc" THEN a < b ELSE a > b)
        ELSE IF ta = <<>> THEN TRUE
        ELSE IF tb = <<>> THEN FALSE
        ELSE ta[1] > tb[1]

\* The rows of a table in the service's ordering.
TableIds(table) ==
    LET In(i) == InTable(table, i)
    IN  SelectSeq([i \in ArticleIds |-> i], In)

Sorted(table, tie) ==
    LET Lt(a, b) == Before(a, b, tie)
    IN  SortSeq(TableIds(table), Lt)

ViewAsc == Sorted("v_triage_live", "asc")
ViewDesc == Sorted("v_triage_live", "desc")
ArticlesAsc == Sorted("articles", "asc")
ArticlesDesc == Sorted("articles", "desc")

Ordered(table, tie) ==
    IF table = "v_triage_live"
    THEN (IF tie = "asc" THEN ViewAsc ELSE ViewDesc)
    ELSE (IF tie = "asc" THEN ArticlesAsc ELSE ArticlesDesc)

(***************************************************************************)
(* Queries: what the query builder has accumulated when it is awaited.     *)
(***************************************************************************)
Gte(column, n) == [op |-> "gte", column |-> column, num |-> n, str |-> ""]
Eq(column, v) == [op |-> "eq", column |-> column, num |-> 0, str |-> v]
NotIsNull(column) == [op |-> "not.is.null", column |-> column, num |-> 0, str |-> ""]

From(table) ==
    [table |-> table, columns |-> Null, count |-> Null, preds |-> {},
     order |-> <<>>, range |-> <<>>]
Select(q, columns, countMode) == [q EXCEPT !.columns = columns, !.count = countMode]
Filter(q, pred) == [q EXCEPT !.preds = @ \cup {pred}]
Order(q, column, ascending) ==
    [q EXCEPT !.order = <<[column |-> column, ascending |-> ascending]>>]
Range(q, from, to) == [q EXCEPT !.range = <<from, to>>]

Params(ms, sev, ct, st, pg) ==
    [minScore |-> ms, severity |-> sev, caseType |-> ct, status |-> st, page |-> pg]


\* toIdx one too far: the range holds PAGE_SIZE + 1 positions
PageRange_OneTooMany(pg) ==
    LET fromIdx == (pg - 1) * PAGE_SIZE
        toIdx == fromIdx + PAGE_SIZE
    IN  <<fromIdx, toIdx>>

PageRange(pg) ==
    LET fromIdx == (pg - 1) * PAGE_SIZE
        toIdx == fromIdx + PAGE_SIZE - 1
    IN  <<fromIdx, toIdx>>

selectCols ==
    "id,url,title,publisher_domain,people,severity,case_type,lead_score,triage_reasons,triaged_at,ingested_at,status"


\* the view query without its case-type line
ViewQuery_NoCaseType(v, p) ==
    LET rg == PageRange(p.page)
        q0 == Range(Order(Select(From("v_triage_live"), selectCols, "exact"),
                          "triaged_at", FALSE), rg[1], rg[2])
        qa == IF p.minScore > 0 THEN Filter(q0, Gte("lead_score", p.minScore)) ELSE q0
        qb == IF p.severity # "all" THEN Filter(qa, Eq("severity", p.severity)) ELSE qa
        qd == IF v = "status" /\ p.status # "all"
              THEN Filter(qb, Eq("status", p.status)) ELSE qb
    IN  qd

\* 1) Try view
ViewQuery(v, p) ==
    LET rg == PageRange(p.page)
        q0 == Range(Order(Select(From("v_triage_live"), selectCols, "exact"),
                          "triaged_at", FALSE), rg[1], rg[2])
        qa == IF p.minScore > 0 THEN Filter(q0, Gte("lead_score", p.minScore)) ELSE q0
        qb == IF p.severity # "all" THEN Filter(qa, Eq("severity", p.severity)) ELSE qa
        qc == IF p.caseType # "all" THEN Filter(qb, Eq("case_type", p.caseType)) ELSE qb
        qd == IF v = "status" /\ p.status # "all"
              THEN Filter(qc, Eq("status", p.status)) ELSE qc
    IN  qd


\* the fallback query without not("triaged_at", "is", null)
ArticlesQuery_NoNotNull(v, p) ==
    LET rg == PageRange(p.page)
        q0 == Range(Order(Select(From("articles"), selectCols, "exact"),
                          "triaged_at", FALSE), rg[1], rg[2])
        qa == IF p.minScore > 0 THEN Filter(q0, Gte("lead_score", p.minScore)) ELSE q0
        qb == IF p.severity # "all" THEN Filter(qa, Eq("severity", p.severity)) ELSE qa
        qc == IF p.caseType # "all" THEN Filter(qb, Eq("case_type", p.caseType)) ELSE qb
        qd == IF v = "status" /\ p.status # "all"
              THEN Filter(qc, Eq("status", p.status)) ELSE qc
    IN  qd

\* the fallback query without its status line
ArticlesQuery_NoStatus(v, p) ==
    LET rg == PageRange(p.page)
        q0 == Range(Order(Filter(Select(From("articles"), selectCols, "exact"),
                                 NotIsNull("triaged_at")),
                          "triaged_at", FALSE), rg[1], rg[2])
        qa == IF p.minScore > 0 THEN Filter(q0, Gte("lead_score", p.minScore)) ELSE q0
        qb == IF p.severity # "all" THEN Filter(qa, Eq("severity", p.severity)) ELSE qa
        qc == IF p.caseType # "all" THEN Filter(qb, Eq("case_type", p.caseType)) ELSE qb
    IN  qc

\* 2) Fallback: articles
ArticlesQuery(v, p) ==
    LET rg == PageRange(p.page)
        q0 == Range(Order(Filter(Select(From("articles"), selectCols, "exact"),
                                 NotIsNull("triaged_at")),
                          "triaged_at", FALSE), rg[1], rg[2])
        qa == IF p.minScore > 0 THEN Filter(q0, Gte("lead_score", p.minScore)) ELSE q0
        qb == IF p.severity # "all" THEN Filter(qa, Eq("severity", p.severity)) ELSE qa
        qc == IF p.caseType # "all" THEN Filter(qb, Eq("case_type", p.caseType)) ELSE qb
        qd == IF v = "status" /\ p.status # "all"
              THEN Filter(qc, Eq("status", p.status)) ELSE qc
    IN  qd

\* fetchPaged: the view only
PagedQuery(p) ==
    LET rg == PageRange(p.page)
        q0 == Range(Order(Select(From("v_triage_live"), "*", "exact"),
                          "triaged_at", FALSE), rg[1], rg[2])
        qa == IF p.minScore > 0 THEN Filter(q0, Gte("lead_score", p.minScore)) ELSE q0
        qb == IF p.severity # "all" THEN Filter(qa, Eq("severity", p.severity)) ELSE qa
        qc == IF p.caseType # "all" THEN Filter(qb, Eq("case_type", p.caseType)) ELSE qb
        qd == IF p.status # "all" THEN Filter(qc, Eq("status", p.status)) ELSE qc
    IN  qd

(***************************************************************************)
(* The remote service's answer to a query.                                 *)
(***************************************************************************)
TextField(r, column) ==
    CASE column = "severity" -> r.severity
      [] column = "case_type" -> r.case_type
      [] column = "status" -> r.status
      [] OTHER -> Null

NumField(r, column) ==
    CASE column = "lead_score" -> r.lead_score
      [] column = "triaged_at" -> r.triaged_at
      [] OTHER -> <<>>

\* A comparison with a null column is never true.
Satisfies(r, pred) ==
    CASE pred.op = "gte" ->
            NumField(r, pred.column) # <<>> /\ NumField(r, pred.column)[1] >= pred.num
      [] pred.op = "eq" ->
            TextField(r, pred.column) # Null /\ TextField(r, pred.column) = pred.str
      [] pred.op = "not.is.null" -> NumField(r, pred.column) # <<>>
      [] OTHER -> FALSE

\* The rows of a table that satisfy every predicate, in the service's order.
Select_(table, preds, tie) ==
    LET Test(i) == \A pred \in preds : Satisfies(Article[i], pred)
    IN  SelectSeq(Ordered(table, tie), Test)

\* The predicates the page's filter values can produce, and the answers to
\* them (computed once).
KnownPreds ==
    {Gte("lead_score", m) : m \in MinScores}
    \cup {Eq("severity", s) : s \in SEVERITIES \ {"all"}}
    \cup {Eq("case_type", c) : c \in CASE_TYPES \ {"all"}}
    \cup {Eq("status", s) : s \in STATUSES \ {"all"}}
    \cup {NotIsNull("triaged_at")}

Answers ==
    [t \in Tables, tie \in TieOrders, preds \in SUBSET KnownPreds |->
        Select_(t, preds, tie)] @@ <<>>

Matching(q, tie) ==
    IF q.preds \subseteq KnownPreds
    THEN Answers[q.table, tie, q.preds]
    ELSE Select_(q.table, q.preds, tie)

Min(a, b) == IF a <= b THEN a ELSE b

\* rows from..to of s, 0-based and inclusive, as far as s has them
Slice(s, from, to) == SubSeq(s, from + 1, Min(to + 1, Len(s)))

Success(q, tie) ==
    LET all == Matching(q, tie)
    IN  [error |-> Null, data |-> Slice(all, q.range[1], q.range[2]), count |-> Len(all)]

Failure(message) == [error |-> message, data |-> <<>>, count |-> 0]

ViewErrors == {"relation v_triage_live does not exist"}
ArticlesErrors == {"Failed to fetch"}

ErrorsOf(table) == IF table = "v_triage_live" THEN ViewErrors ELSE ArticlesErrors

\* Every response the service can give to q: the rows in range with the
\* exact count, ties in either order, or an error.
Responses(q) ==
    {Success(q, tie) : tie \in TieOrders} \cup {Failure(m) : m \in ErrorsOf(q.table)}

(***************************************************************************)
(* One call of the fetcher: the queries issued so far and the responses    *)
(* received; the call is suspended at its latest await.                    *)
(***************************************************************************)
\* createClient(url, anon): a new instance at every call
createClient == "client" \o ToString(created + 1)

\* getSupabase without the test of the cache
GetSupabase_NoCacheTest(win, url, anon) ==
    IF ~win THEN [client |-> Null, cache |-> _client, created |-> created]
    ELSE IF ~url \/ ~anon
    THEN [client |-> Null, cache |-> _client, created |-> created]
    ELSE [client |-> createClient, cache |-> createClient, created |-> created + 1]

\* getSupabase() where typeof window, NEXT_PUBLIC_SUPABASE_URL and
\* NEXT_PUBLIC_SUPABASE_ANON_KEY are as given: the client it returns, the
\* cache it leaves and the number of clients constructed after it.
GetSupabase(win, url, anon) ==
    IF ~win THEN [client |-> Null, cache |-> _client, created |-> created]
    ELSE IF _client # Null
    THEN [client |-> _client, cache |-> _client, created |-> created]
    ELSE IF ~url \/ ~anon
    THEN [client |-> Null, cache |-> _client, created |-> created]
    ELSE [client |-> createClient, cache |-> createClient, created |-> created + 1]

\* getSupabase() in the build the page runs in
getSupabase == GetSupabase(hasWindow, hasEnv, hasEnv)

\* the fetch without its test of the client
StartFetch_NoClientTest(v, p, id) ==
    [id |-> id,
     params |-> p,
     queries |-> <<IF v = "paged" THEN PagedQuery(p) ELSE ViewQuery(v, p)>>,
     answers |-> <<>>]

\* The call numbered id runs up to its first await; without a client it
\* issues no query and has only its return left.
StartFetch(v, p, id) ==
    [id |-> id,
     params |-> p,
     queries |-> IF getSupabase.client = Null THEN <<>>
                 ELSE <<IF v = "paged" THEN PagedQuery(p) ELSE ViewQuery(v, p)>>,
     answers |-> <<>>]

\* if (!supabase) return { data: [], count: 0, source: "v_triage_live" }
NoClientReturn(v) ==
    [kind |-> "return", data |-> <<>>, count |-> 0,
     source |-> IF v = "paged" THEN Null ELSE "v_triage_live", message |-> <<>>]


\* count taken from the rows of the page instead of the exact count
ViewReturn_PageCount(r1) ==
    [kind |-> "return", data |-> r1.data, count |-> Len(r1.data),
     source |-> "v_triage_live", message |-> <<>>]

\* On an error response data and count are null; the model writes them <<>>
\* and 0, which is what "?? []" and "?? 0" make of null.
ViewReturn(r1) ==
    [kind |-> "return", data |-> r1.data, count |-> r1.count,
     source |-> "v_triage_live", message |-> <<>>]

ArticlesReturn(r2) ==
    [kind |-> "return", data |-> r2.data, count |-> r2.count,
     source |-> "articles", message |-> <<>>]


\* the thrown message without the view's error
BothFailed_ArticlesOnly(r1, r2) ==
    [kind |-> "throw", data |-> <<>>, count |-> 0, source |-> Null,
     message |-> <<"Articles error: ", r2.error>>]

BothFailed(r1, r2) ==
    [kind |-> "throw", data |-> <<>>, count |-> 0, source |-> Null,
     message |-> <<"View error: ", r1.error, " | Articles error: ", r2.error>>]

\* fetchPaged returns whatever came back, with no look at res.error
PagedReturn(r) ==
    [kind |-> "return", data |-> r.data, count |-> r.count,
     source |-> Null, message |-> <<>>]

Pending == [kind |-> "pending", data |-> <<>>, count |-> 0, source |-> Null,
            message |-> <<>>]


\* an empty view result treated like a failed view query
Resume_EmptyFallsBack(v, c, r) ==
    IF c.queries = <<>> THEN NoClientReturn(v)
    ELSE IF v = "paged" THEN PagedReturn(r)
    ELSE IF Len(c.answers) = 0
    THEN IF r.error = Null /\ r.data # <<>> THEN ViewReturn(r) ELSE Pending
    ELSE IF r.error # Null THEN BothFailed(c.answers[1], r) ELSE ArticlesReturn(r)

\* The call c resumes with response r to its latest query: the outcome of
\* the call, or Pending when it goes on to await the fallback query.
Resume(v, c, r) ==
    IF c.queries = <<>> THEN NoClientReturn(v)
    ELSE IF v = "paged" THEN PagedReturn(r)
    ELSE IF Len(c.answers) = 0
    THEN IF r.error = Null THEN ViewReturn(r) ELSE Pending
    ELSE IF r.error # Null THEN BothFailed(c.answers[1], r) ELSE ArticlesReturn(r)

\* the articles query issued after every response to the view query
Advance_QueriesBoth(v, c, r) ==
    [c EXCEPT !.answers = IF c.queries = <<>> THEN @ ELSE Append(@, r),
              !.queries = IF Len(c.queries) = 1 /\ v # "paged"
                          THEN Append(@, ArticlesQuery(v, c.params)) ELSE @]

\* The call after the response r: the fallback query is issued when the
\* call goes on.
Advance(v, c, r) ==
    [c EXCEPT !.answers = IF c.queries = <<>> THEN @ ELSE Append(@, r),
              !.queries = IF Resume(v, c, r).kind = "pending"
                          THEN Append(@, ArticlesQuery(v, c.params)) ELSE @]

Outcome(v, c, r) ==
    LET d == Advance(v, c, r)
    IN  [id |-> d.id, params |-> d.params, queries |-> d.queries,
         answers |-> d.answers, out |-> Resume(v, c, r)]

\* What the call c is suspended on: the response to its latest query, or,
\* with no query issued, nothing but the return of the async function.
NoResponse == [error |-> Null, data |-> <<>>, count |-> 0]

Awaited(c) == IF c.queries = <<>> THEN {NoResponse} ELSE Responses(c.queries[Len(c.queries)])

(***************************************************************************)
(* The fetcher called directly, for fixed filters, once per page.          *)
(***************************************************************************)
Pages == 1..MaxPage

StatusArg == IF variant = "basic" THEN Null ELSE status

RemoveAt(s, i) == SubSeq(s, 1, i - 1) \o SubSeq(s, i + 1, Len(s))

PageDefaults ==
    /\ _client = Null
    /\ created = 0
    /\ mounted = FALSE
    /\ unmounted = FALSE
    /\ search = <<>>
    /\ sortKey = "triaged_at"
    /\ sortDir = "desc"
    /\ jumped = <<>>
    /\ got = <<>>
    /\ page = 1
    /\ autoRefresh = TRUE
    /\ rows = <<>>
    /\ totalCount = 0
    /\ loading = TRUE
    /\ err = <<>>
    /\ source = Null
    /\ timers = {}
    /\ inflight = <<>>
    /\ issued = 0
    /\ res = <<>>
    /\ returned = [pg \in Pages |-> <<>>]
    /\ events = 0
    /\ last = "init"

InitFetch ==
    /\ variant \in Fetchers
    /\ hasWindow \in BOOLEAN
    /\ hasEnv \in BOOLEAN
    /\ minScore \in MinScores
    /\ severity \in SEVERITIES
    /\ caseType \in CASE_TYPES
    /\ status \in IF variant = "basic" THEN {"all"} ELSE STATUSES
    /\ PageDefaults

pageVars == <<buildVars, asideVars, mounted, unmounted, minScore, severity, caseType,
              status, search, page, autoRefresh, rows, totalCount, loading, err, source,
              timers, res, events, last>>

\* the finished direct calls, by page
Done ==
    LET upTo[k \in 0..MaxPage] == IF k = 0 THEN <<>> ELSE upTo[k - 1] \o returned[k]
    IN  upTo[MaxPage]

\* the pages called so far
CalledPages ==
    {pg \in Pages : returned[pg] # <<>>}
    \cup {inflight[i].params.page : i \in 1..Len(inflight)}

\* the direct calls made so far
NumCalls == Len(inflight) + Len(Done)

\* A call for page pg: the pages are called once each in ascending order,
\* or one page is called again, up to MaxRepeat times. Direct calls are not
\* numbered.
Call(pg) ==
    /\ \/ NumCalls = Cardinality(CalledPages) /\ \A q \in CalledPages : q < pg
       \/ CalledPages = {pg} /\ NumCalls <= MaxRepeat
    /\ inflight' = Append(inflight,
                          StartFetch(variant,
                                     Params(minScore, severity, caseType, StatusArg, pg),
                                     0))
    /\ _client' = getSupabase.cache
    /\ created' = getSupabase.created
    /\ UNCHANGED <<pageVars, issued, returned>>

CallResponds(i, r) ==
    /\ IF Resume(variant, inflight[i], r).kind = "pending"
       THEN /\ inflight' = [inflight EXCEPT ![i] = Advance(variant, @, r)]
            /\ UNCHANGED returned
       ELSE /\ inflight' = RemoveAt(inflight, i)
            /\ returned' = [returned EXCEPT ![inflight[i].params.page] =
                                Append(@, Outcome(variant, inflight[i], r))]
    /\ UNCHANGED <<pageVars, issued, clientVars>>

NextFetch ==
    \/ \E pg \in Pages : Call(pg)
    \/ \E i \in 1..Len(inflight) : \E r \in Awaited(inflight[i]) : CallResponds(i, r)

SpecFetch == InitFetch /\ [][NextFetch]_vars

(***************************************************************************)
(* Client-side search and sort (useMemo filtered). A text is a sequence of *)
(* characters; a field that is null is <<>>, a field with text t is <<t>>. *)
(***************************************************************************)
T_truck == <<"t", "r", "u", "c", "k">>
T_Truck == <<"T", "r", "u", "c", "k">>
T_bus == <<"b", "u", "s">>
T_dui == <<"d", "u", "i">>
T_al == <<"A", "l">>
T_bo == <<"B", "o">>
T_abc == <<"a", "b", ".", "c">>
T_null == <<"n", "u", "l", "l">>
T_new == <<"n", "e", "w">>
T_closed == <<"c", "l", "o", "s", "e", "d">>
T_reviewing == <<"r", "e", "v", "i", "e", "w", "i", "n", "g">>
Space == <<" ">>

\* The text columns of article i, which no query of the page filters on.
TextOf(i) ==
    CASE i % 5 = 0 -> [title |-> <<T_Truck>>, publisher_domain |-> <<T_abc>>,
                       triage_reasons |-> <<<<T_dui>>>>, people |-> <<<<T_al>>>>]
      [] i % 5 = 1 -> [title |-> <<>>, publisher_domain |-> <<>>,
                       triage_reasons |-> <<>>, people |-> <<>>]
      [] i % 5 = 2 -> [title |-> <<T_bus>>, publisher_domain |-> <<T_abc>>,
                       triage_reasons |-> <<<<T_dui, T_truck>>>>, people |-> <<<<>>>>]
      [] i % 5 = 3 -> [title |-> <<T_bus>>, publisher_domain |-> <<>>,
                       triage_reasons |-> <<<<T_dui>>>>, people |-> <<<<T_al, T_bo>>>>]
      [] OTHER -> [title |-> <<T_truck \o Space \o T_bus>>, publisher_domain |-> <<T_abc>>,
                   triage_reasons |-> <<>>, people |-> <<<<T_bo>>>>]

\* r.status as text
StatusText(i) ==
    LET st == Article[i].status
    IN  CASE st = Null -> <<>>
          [] st = "new" -> <<T_new>>
          [] st = "closed" -> <<T_closed>>
          [] OTHER -> <<T_reviewing>>

\* String.prototype.toLowerCase
LowerChar(c) ==
    CASE c = "T" -> "t"
      [] c = "A" -> "a"
      [] c = "B" -> "b"
      [] OTHER -> c

toLowerCase(t) == [k \in 1..Len(t) |-> LowerChar(t[k])]

\* String.prototype.trim
RECURSIVE trim(_)
trim(t) ==
    IF t = <<>> THEN t
    ELSE IF Head(t) = " " THEN trim(Tail(t))
    ELSE IF t[Len(t)] = " " THEN trim(SubSeq(t, 1, Len(t) - 1))
    ELSE t

\* String.prototype.includes
includes(hay, s) ==
    \E k \in 0..(Len(hay) - Len(s)) : SubSeq(hay, k + 1, k + Len(s)) = s

\* Array.prototype.join
RECURSIVE join(_, _)
join(list, sep) ==
    IF list = <<>> THEN <<>>
    ELSE IF Len(list) = 1 THEN list[1]
    ELSE list[1] \o sep \o join(Tail(list), sep)

\* x ?? "" for a text and x ?? [] for a list
OrEmpty(f) == IF f = <<>> THEN <<>> ELSE f[1]

\* `${x}` for a text that may be null
Interpolated(f) == IF f = <<>> THEN T_null ELSE f[1]

\* the haystack of the pages without a status filter
HayBasic(i) ==
    toLowerCase(OrEmpty(TextOf(i).title) \o Space \o OrEmpty(TextOf(i).publisher_domain)
                \o Space \o join(OrEmpty(TextOf(i).triage_reasons), Space)
                \o Space \o join(OrEmpty(TextOf(i).people), Space))

\* the haystack of the page with the status filter
HayStatus(i) ==
    toLowerCase(OrEmpty(TextOf(i).title) \o Space \o OrEmpty(TextOf(i).publisher_domain)
                \o Space \o join(OrEmpty(TextOf(i).triage_reasons), Space)
                \o Space \o join(OrEmpty(TextOf(i).people), Space)
                \o Space \o OrEmpty(StatusText(i)))

\* the haystack of the page that calls fetchPaged
HayPaged(i) ==
    toLowerCase(Interpolated(TextOf(i).title) \o Space
                \o Interpolated(TextOf(i).publisher_domain)
                \o Space \o join(OrEmpty(TextOf(i).people), Space)
                \o Space \o join(OrEmpty(TextOf(i).triage_reasons), Space))

Hay(v, i) ==
    IF v = "basic" THEN HayBasic(i)
    ELSE IF v = "status" THEN HayStatus(i)
    ELSE HayPaged(i)

\* const s = search.trim().toLowerCase(); fetchPaged's page does not trim
Needle(v, srch) == IF v = "paged" THEN toLowerCase(srch) ELSE toLowerCase(trim(srch))

\* searched: the rows kept by the search text
Searched(v, rs, srch) ==
    LET s == Needle(v, srch)
        keep(i) == includes(Hay(v, i), s)
    IN  IF s = <<>> THEN rs ELSE SelectSeq(rs, keep)

\* new Date(t).getTime(): every triage timestamp of the data is later than
\* 1970-01-01T00:00:00Z, which is 0
getTime(t) == t + 1

MinusInfinity == <<>>

\* the sort key of row i, <<>> being -Infinity; fetchPaged's page takes -1
\* for a missing score and new Date(0).getTime(), which is 0, for a missing
\* timestamp
SortValue(v, key, i) ==
    IF v = "paged"
    THEN IF key = "lead_score"
         THEN IF Article[i].lead_score = <<>> THEN <<-1>> ELSE Article[i].lead_score
         ELSE IF Article[i].triaged_at = <<>> THEN <<0>>
              ELSE <<getTime(Article[i].triaged_at[1])>>
    ELSE IF key = "lead_score"
         THEN IF Article[i].lead_score = <<>> THEN MinusInfinity ELSE Article[i].lead_score
         ELSE IF Article[i].triaged_at = <<>> THEN MinusInfinity
              ELSE <<getTime(Article[i].triaged_at[1])>>

\* The sign of a - b, 0 for NaN (-Infinity - -Infinity), which sort takes
\* for 0.
Minus(a, b) ==
    IF a = MinusInfinity /\ b = MinusInfinity THEN 0
    ELSE IF a = MinusInfinity THEN -1
    ELSE IF b = MinusInfinity THEN 1
    ELSE IF a[1] < b[1] THEN -1
    ELSE IF a[1] > b[1] THEN 1
    ELSE 0

\* the comparator passed to sort
Compare(v, key, dir, a, b) ==
    LET av == SortValue(v, key, a)
        bv == SortValue(v, key, b)
    IN  IF dir = "asc" THEN Minus(av, bv) ELSE Minus(bv, av)

\* Array.prototype.sort with the comparator Compare: stable
SortBy(s, v, key, dir) ==
    LET ins(acc, x) ==
            LET k == Cardinality({j \in 1..Len(acc) :
                                     Compare(v, key, dir, acc[j], x) <= 0})
            IN  SubSeq(acc, 1, k) \o <<x>> \o SubSeq(acc, k + 1, Len(acc))
        f[n \in 0..Len(s)] == IF n = 0 THEN <<>> ELSE ins(f[n - 1], s[n])
    IN  f[Len(s)]

\* filtered: the rows the table shows
filtered(v, rs, srch, key, dir) ==
    SortBy(Searched(v, rs, srch), v, key, dir)

\* Math.max(1, Math.min(totalPages, Number(e.target.value) || 1)) with the
\* typed number and the result counted in halves: 3 is 1.5
JumpTarget(tp, typed2) ==
    LET n2 == IF typed2 = 0 THEN 2 ELSE typed2
        m2 == IF 2 * tp <= n2 THEN 2 * tp ELSE n2
    IN  IF m2 <= 2 THEN 2 ELSE m2

(***************************************************************************)
(* getSupabase called directly, the configuration found by each call given. *)
(***************************************************************************)
MaxGets == 6        \* direct calls of getSupabase in one run

InitClient ==
    /\ variant \in Variants
    /\ hasWindow = TRUE
    /\ hasEnv \in BOOLEAN
    /\ minScore = 70
    /\ severity = "all"
    /\ caseType = "all"
    /\ status = "all"
    /\ PageDefaults

\* const supabase = getSupabase(), with process.env as the call finds it
Get(url, anon) ==
    /\ Len(got) < MaxGets
    /\ LET g == GetSupabase(hasWindow, url, anon)
       IN  /\ got' = Append(got, [url |-> url, anon |-> anon, cached |-> _client,
                                  client |-> g.client])
           /\ _client' = g.cache
           /\ created' = g.created
    /\ hasEnv' = (url /\ anon)
    /\ UNCHANGED <<variant, hasWindow, sortKey, sortDir, jumped, mounted, unmounted,
                   filterVars, search, page, autoRefresh, shownVars, timers, inflight,
                   issued, res, returned, events, last>>

NextClient == \E url, anon \in BOOLEAN : Get(url, anon)

SpecClient == InitClient /\ [][NextClient]_vars

(***************************************************************************)
(* The page: state after useState, effects and handlers.                   *)
(***************************************************************************)
Init ==
    /\ variant \in Variants
    /\ hasWindow = TRUE
    /\ hasEnv \in BOOLEAN
    /\ minScore = 70
    /\ severity = "all"
    /\ caseType = "all"
    /\ status = "all"
    /\ PageDefaults

CeilDiv(a, b) == (a + b - 1) \div b
Max(a, b) == IF a >= b THEN a ELSE b

TotalPages(count) == Max(1, CeilDiv(count, PAGE_SIZE))
totalPages == TotalPages(totalCount)

\* What load passes to the fetcher: the filter values and the page of the
\* render whose closure runs.
LoadParams(ms, sev, ct, st, pg) ==
    Params(ms, sev, ct, IF variant = "status" THEN st ELSE Null, pg)

\* load() up to its await, called once for each element of ps in turn:
\* setLoading(true), setErr(null), and the fetch is under way.
StartLoads(ps) ==
    /\ inflight' = inflight \o [k \in 1..Len(ps) |-> StartFetch(variant, ps[k], issued + k)]
    /\ issued' = issued + Len(ps)
    /\ _client' = getSupabase.cache
    /\ created' = getSupabase.created
    /\ loading' = TRUE
    /\ err' = <<>>
    /\ res' = <<>>

\* the interval effect depending on autoRefresh only: the interval set
\* first keeps calling the load of the render that set it
SetUpTimer_FirstClosure(ts, auto, p) == IF auto THEN (IF ts = {} THEN {p} ELSE ts) ELSE {}

\* the interval effect without its cleanup: the earlier interval stays
SetUpTimer_NoCleanup(ts, auto, p) == IF auto THEN ts \cup {p} ELSE ts

\* The interval effect runs for a render with closure p: the cleanup of its
\* previous run clears the interval that run had set, then, with
\* auto-refresh on, setInterval(load, 15000) sets one that calls load of p.
SetUpTimer(ts, auto, p) == IF auto THEN {p} ELSE {}

\* a fetch without a client has only its return left, which runs before any
\* further event
Settling == \E i \in 1..Len(inflight) : inflight[i].queries = <<>>

Event ==
    /\ mounted
    /\ ~Settling
    /\ events < MaxEvents
    /\ events' = events + 1

\* First render's effects: setPage(1), load(), and the interval.
Mount ==
    /\ ~mounted
    /\ ~unmounted
    /\ mounted' = TRUE
    /\ StartLoads(<<LoadParams(minScore, severity, caseType, status, page)>>)
    /\ timers' = SetUpTimer(timers, autoRefresh,
                            LoadParams(minScore, severity, caseType, status, page))
    /\ last' = "mount"
    /\ UNCHANGED <<buildVars, asideVars, unmounted, filterVars, search, page, autoRefresh, rows,
                   totalCount, source, returned, events>>

\* The effect cleanups of the last render run: clearInterval. The fetches
\* under way go on, but the state setters of their loads no longer change
\* anything displayed: they are followed no further.
Unmount ==
    /\ Event
    /\ mounted' = FALSE
    /\ unmounted' = TRUE
    /\ timers' = {}
    /\ inflight' = <<>>
    /\ res' = <<>>
    /\ last' = "unmount"
    /\ UNCHANGED <<buildVars, asideVars, clientVars, filterVars, search, page, autoRefresh,
                   shownVars, issued, returned>>

\* no second load after setPage(1)
LoadsOnFilterChange_OneLoad(ms, sev, ct, st) ==
    <<LoadParams(ms, sev, ct, st, page)>>

\* The loads the effects start after a render with new filter values: the
\* load effect runs in the render that still has the old page, and again
\* in the render after setPage(1) when that changed the page.
LoadsOnFilterChange(ms, sev, ct, st) ==
    IF page = 1
    THEN <<LoadParams(ms, sev, ct, st, 1)>>
    ELSE <<LoadParams(ms, sev, ct, st, page), LoadParams(ms, sev, ct, st, 1)>>

FilterChange(ms, sev, ct, st) ==
    /\ Event
    /\ <<ms, sev, ct, st>> # <<minScore, severity, caseType, status>>
    /\ minScore' = ms
    /\ severity' = sev
    /\ caseType' = ct
    /\ status' = st
    /\ page' = 1
    /\ StartLoads(LoadsOnFilterChange(ms, sev, ct, st))
    /\ timers' = SetUpTimer(SetUpTimer(timers, autoRefresh,
                                       LoadParams(ms, sev, ct, st, page)),
                            autoRefresh, LoadParams(ms, sev, ct, st, 1))
    /\ last' = "filter"
    /\ UNCHANGED <<buildVars, asideVars, mounted, unmounted, search, autoRefresh, rows,
                   totalCount, source, returned>>

SetMinScore(v) == FilterChange(v, severity, caseType, status)
SetSeverity(v) == FilterChange(minScore, v, caseType, status)
SetCaseType(v) == FilterChange(minScore, severity, v, status)
SetStatus(v) == variant = "status" /\ FilterChange(minScore, severity, caseType, v)

\* the dependencies of the load effect and, with autoRefresh, of the
\* interval effect
LoadDeps == {"minScore", "severity", "caseType", "status", "page"}

\* a load effect that runs after every render
LoadsOnRender_Always(changed) ==
    <<LoadParams(minScore, severity, caseType, status, page)>>

\* The loads started by the effects of a render in which the state named
\* in changed differs from the render before.
LoadsOnRender(changed) ==
    IF changed \cap LoadDeps = {} THEN <<>>
    ELSE <<LoadParams(minScore, severity, caseType, status, page)>>

\* A handler has set search, sortKey or sortDir (changed names which) and
\* the page renders again.
ViewChange(changed, kind) ==
    /\ Event
    /\ changed # {}
    /\ IF LoadsOnRender(changed) = <<>>
       THEN /\ res' = <<>>
            /\ UNCHANGED <<clientVars, loading, err, inflight, issued>>
       ELSE StartLoads(LoadsOnRender(changed))
    /\ last' = kind
    /\ UNCHANGED <<buildVars, jumped, got, mounted, unmounted, filterVars, page,
                   autoRefresh, rows, totalCount, source, timers, returned>>

\* setSearch(e.target.value); on the pages with a searchInput field the
\* debounce timer has fired: setSearch(searchInput)
SetSearch(v) ==
    /\ search' = v
    /\ UNCHANGED <<sortKey, sortDir>>
    /\ ViewChange(IF v # search THEN {"search"} ELSE {}, "search")

toggleScoreSort ==
    /\ variant # "paged"
    /\ IF sortKey # "lead_score"
       THEN /\ sortKey' = "lead_score"
            /\ sortDir' = "desc"
            /\ ViewChange({"sortKey"} \cup (IF sortDir # "desc" THEN {"sortDir"} ELSE {}),
                          "sort")
       ELSE /\ sortKey' = sortKey
            /\ sortDir' = IF sortDir = "desc" THEN "asc" ELSE "desc"
            /\ ViewChange({"sortDir"}, "sort")
    /\ UNCHANGED search

toggleTriageSort ==
    /\ variant = "status"
    /\ IF sortKey # "triaged_at"
       THEN /\ sortKey' = "triaged_at"
            /\ sortDir' = "desc"
            /\ ViewChange({"sortKey"} \cup (IF sortDir # "desc" THEN {"sortDir"} ELSE {}),
                          "sort")
       ELSE /\ sortKey' = sortKey
            /\ sortDir' = IF sortDir = "desc" THEN "asc" ELSE "desc"
            /\ ViewChange({"sortDir"}, "sort")
    /\ UNCHANGED search

\* onClick={() => setSortKey(k)} of the page that calls fetchPaged
SetSortKey(k) ==
    /\ variant = "paged"
    /\ sortKey' = k
    /\ UNCHANGED <<sortDir, search>>
    /\ ViewChange(IF k # sortKey THEN {"sortKey"} ELSE {}, "sort")

SetAutoRefresh(v) ==
    /\ Event
    /\ v # autoRefresh
    /\ autoRefresh' = v
    /\ timers' = SetUpTimer(timers, v,
                            LoadParams(minScore, severity, caseType, status, page))
    /\ res' = <<>>
    /\ last' = "auto"
    /\ UNCHANGED <<buildVars, asideVars, clientVars, mounted, unmounted, filterVars, search, page,
                   shownVars, inflight, issued, returned>>

\* onClick={load}
Refresh ==
    /\ Event
    /\ StartLoads(<<LoadParams(minScore, severity, caseType, status, page)>>)
    /\ last' = "refresh"
    /\ UNCHANGED <<buildVars, asideVars, mounted, unmounted, filterVars, search, page,
                   autoRefresh, rows, totalCount, source, timers, returned>>

\* An interval set by setInterval(load, 15000) fires: load of its closure.
TimerTick ==
    /\ Event
    /\ \E t \in timers : StartLoads(<<t>>)
    /\ last' = "tick"
    /\ UNCHANGED <<buildVars, asideVars, mounted, unmounted, filterVars, search, page,
                   autoRefresh, rows, totalCount, source, timers, returned>>

\* setPage(pg) with a new value, and the effects of the next render
GoToPage(pg) ==
    /\ Event
    /\ pg # page
    /\ page' = pg
    /\ StartLoads(<<LoadParams(minScore, severity, caseType, status, pg)>>)
    /\ timers' = SetUpTimer(timers, autoRefresh,
                            LoadParams(minScore, severity, caseType, status, pg))
    /\ last' = "page"
    /\ UNCHANGED <<buildVars, asideVars, mounted, unmounted, filterVars, search, autoRefresh,
                   rows, totalCount, source, returned>>

Prev == ~(page <= 1 \/ loading) /\ GoToPage(Max(1, page - 1))

NextPage == ~(page >= totalPages \/ loading) /\ GoToPage(Min(totalPages, page + 1))

\* Number(e.target.value) || 1, clamped
Jump(n) == GoToPage(JumpTarget(totalPages, 2 * n) \div 2)

\* the try block without setTotalCount(res.count)
Resolved_KeepsCount(o) ==
    [rows |-> o.data, totalCount |-> totalCount, source |-> o.source, err |-> err]

\* The displayed result after the try block of load ran with fetch result o.
Resolved(o) ==
    [rows |-> o.data, totalCount |-> o.count, source |-> o.source, err |-> err]

\* the catch block without setRows([]) and setTotalCount(0)
Rejected_KeepsRows(o) ==
    [rows |-> rows, totalCount |-> totalCount, source |-> Null, err |-> o.message]

\* The displayed result after the catch block of load ran with error o.
Rejected(o) ==
    [rows |-> <<>>, totalCount |-> 0, source |-> Null, err |-> o.message]

\* a load started again when the fetch throws
SnapsBack_OnThrowToo(pg, o) == o.kind = "throw" \/ pg > TotalPages(o.count)

\* if (page > newTotalPages) setPage(1), page being the page load was
\* called with
SnapsBack(pg, o) == o.kind = "return" /\ pg > TotalPages(o.count)

\* A response arrives for the i-th fetch under way; when the fetch returns
\* or throws, load resumes after its await.
Responds(i, r) ==
    /\ mounted
    /\ LET c == inflight[i]
           o == Resume(variant, c, r)
           done == Outcome(variant, c, r)
           shown == IF o.kind = "return" THEN Resolved(o) ELSE Rejected(o)
           snap == SnapsBack(c.params.page, o) /\ page # 1
           p1 == LoadParams(minScore, severity, caseType, status, 1)
       IN  IF o.kind = "pending"
           THEN /\ inflight' = [inflight EXCEPT ![i] = Advance(variant, c, r)]
                /\ res' = <<>>
                /\ UNCHANGED <<clientVars, page, shownVars, timers, issued>>
           ELSE /\ rows' = shown.rows
                /\ totalCount' = shown.totalCount
                /\ source' = shown.source
                /\ res' = <<done>>
                /\ IF snap
                   THEN /\ page' = 1
                        /\ inflight' = Append(RemoveAt(inflight, i),
                                              StartFetch(variant, p1, issued + 1))
                        /\ issued' = issued + 1
                        /\ _client' = getSupabase.cache
                        /\ created' = getSupabase.created
                        /\ timers' = SetUpTimer(timers, autoRefresh, p1)
                        /\ loading' = TRUE
                        /\ err' = <<>>
                   ELSE /\ page' = page
                        /\ inflight' = RemoveAt(inflight, i)
                        /\ loading' = FALSE
                        /\ err' = shown.err
                        /\ UNCHANGED <<clientVars, timers, issued>>
    /\ last' = "response"
    /\ UNCHANGED <<buildVars, asideVars, mounted, unmounted, filterVars, search, autoRefresh,
                   returned, events>>

Next ==
    \/ Mount
    \/ Unmount
    \/ \E v \in TypedScores : SetMinScore(v)
    \/ \E v \in SEVERITIES : SetSeverity(v)
    \/ \E v \in CASE_TYPES : SetCaseType(v)
    \/ \E v \in STATUSES : SetStatus(v)
    \/ \E v \in {<<>>, T_truck} : SetSearch(v)
    \/ toggleScoreSort
    \/ toggleTriageSort
    \/ \E v \in BOOLEAN : SetAutoRefresh(v)
    \/ Refresh
    \/ TimerTick
    \/ Prev
    \/ NextPage
    \/ \E n \in 0..(MaxPage + 1) : Jump(n)
    \/ \E i \in 1..Len(inflight) : \E r \in Awaited(inflight[i]) : Responds(i, r)

Spec == Init /\ [][Next]_vars

(***************************************************************************)
(* The table of a page that has loaded: search, sort and the Jump input    *)
(* applied to given rows.                                                  *)
(***************************************************************************)
MaxRows == 2        \* rows of a given page

SampleIds == {5, NumCore + 2, NumCore + 5, NumCore + 6, NumCore + 8, NumCore + 9}

RECURSIVE SeqsOver(_, _)
SeqsOver(ids, n) ==
    IF n = 0 THEN {<<>>}
    ELSE LET shorter == SeqsOver(ids, n - 1)
         IN  shorter \cup {Append(q, i) : q \in {r \in shorter : Len(r) = n - 1},
                                          i \in ids}

\* pages of at most MaxRows rows, no row twice
SamplePages ==
    {q \in SeqsOver(SampleIds, MaxRows) : \A j, k \in 1..Len(q) : j # k => q[j] # q[k]}

SampleCounts == {43, 120}

SearchTexts ==
    {<<>>, Space, Space \o Space, T_truck, T_Truck, Space \o T_truck, T_null, T_new}

\* the numbers typed into the Jump input, in halves
TypedHalves == (-2)..(2 * (MaxPage + 1))

InitView ==
    /\ variant \in Fetchers
    /\ hasWindow = TRUE
    /\ hasEnv = TRUE
    /\ _client = "client1"
    /\ created = 1
    /\ got = <<>>
    /\ mounted = TRUE
    /\ unmounted = FALSE
    /\ minScore = 70
    /\ severity = "all"
    /\ caseType = "all"
    /\ status = "all"
    /\ search \in SearchTexts
    /\ sortKey = "triaged_at"
    /\ sortDir = "desc"
    /\ jumped = <<>>
    /\ page = 1
    /\ autoRefresh = TRUE
    /\ rows \in SamplePages
    /\ totalCount \in SampleCounts
    /\ loading = FALSE
    /\ err = <<>>
    /\ source = IF variant = "paged" THEN Null ELSE "v_triage_live"
    /\ timers = IF variant = "paged" THEN {}
                ELSE {LoadParams(minScore, severity, caseType, status, page)}
    /\ inflight = <<>>
    /\ issued = 1
    /\ res = <<>>
    /\ returned = [pg \in Pages |-> <<>>]
    /\ events = 0
    /\ last = "response"

\* onChange of the Jump input with the number typed: the page number the
\* handler passes to setPage
TypeJump(typed2) ==
    /\ variant # "paged"
    /\ Event
    /\ jumped' = <<typed2, JumpTarget(totalPages, typed2)>>
    /\ last' = "jump"
    /\ UNCHANGED <<buildVars, clientVars, got, sortKey, sortDir, mounted, unmounted,
                   filterVars, search, page, autoRefresh, shownVars, timers, inflight,
                   issued, res, returned>>

NextView ==
    \/ \E v \in SearchTexts : SetSearch(v)
    \/ toggleScoreSort
    \/ toggleTriageSort
    \/ \E k \in {"lead_score", "triaged_at"} : SetSortKey(k)
    \/ \E t \in TypedHalves : TypeJump(t)

SpecView == InitView /\ [][NextView]_vars

(***************************************************************************)
(* Properties                                                              *)
(***************************************************************************)
ReturnedOutcomes == {Done[k] : k \in 1..Len(Done)}

\* every call, under way or finished; each has params, queries and answers
Calls == inflight \o Done

Tables_(c) == {c.queries[j].table : j \in 1..Len(c.queries)}

\* C1: when the view query returns without an error, the fetch returns the
\* view's rows and count tagged v_triage_live, also when there are no rows,
\* and no query against articles is issued.
C1_ViewSuccessIsReturned ==
    variant \in Variants =>
        /\ \A o \in ReturnedOutcomes :
              (o.answers # <<>> /\ o.answers[1].error = Null) =>
                  /\ o.out.kind = "return"
                  /\ o.out.data = o.answers[1].data
                  /\ o.out.count = o.answers[1].count
                  /\ o.out.source = "v_triage_live"
                  /\ Tables_(o) = {"v_triage_live"}
        /\ \A ci \in 1..Len(Calls) : LET c == Calls[ci] IN
              "articles" \in Tables_(c) => c.answers[1].error # Null

C1_EmptyViewSuccess ==
    /\ variant \in Variants
    /\ \E o \in ReturnedOutcomes :
          /\ o.answers # <<>>
          /\ o.answers[1].error = Null
          /\ o.answers[1].data = <<>>
          /\ o.out.source = "v_triage_live"
          /\ o.out.data = <<>>

\* C3: when the view query and the articles query both fail, the fetch
\* throws one error whose message holds the view's error message and, after
\* it, the articles error message, and it returns no rows.
C3_BothFailedThrows ==
    variant \in Variants =>
        \A o \in ReturnedOutcomes :
            (Len(o.answers) = 2 /\ o.answers[1].error # Null /\ o.answers[2].error # Null)
            => /\ o.out.kind = "throw"
               /\ o.out.data = <<>>
               /\ \E i, j \in 1..Len(o.out.message) :
                     /\ i < j
                     /\ o.out.message[i] = o.answers[1].error
                     /\ o.out.message[j] = o.answers[2].error

C3_BothFailedReached ==
    /\ variant \in Variants
    /\ \E o \in ReturnedOutcomes :
          /\ Len(o.answers) = 2
          /\ o.answers[1].error \in ViewErrors
          /\ o.answers[2].error \in ArticlesErrors
          /\ o.out.kind = "throw"

\* C4: the articles query issued after a failed view query carries the view
\* query's score, severity, case-type and status predicates, the one extra
\* predicate that triaged_at is not null, and the view query's range.
C4_FallbackQueryEquivalent ==
    variant \in Variants =>
        \A ci \in 1..Len(Calls) : LET c == Calls[ci] IN
            Len(c.queries) = 2 =>
                /\ c.queries[1].table = "v_triage_live"
                /\ c.queries[2].table = "articles"
                /\ NotIsNull("triaged_at") \notin c.queries[1].preds
                /\ c.queries[2].preds = c.queries[1].preds \cup {NotIsNull("triaged_at")}
                /\ c.queries[2].range = c.queries[1].range

C4_FallbackWithAllFilters ==
    /\ variant = "status"
    /\ \E ci \in 1..Len(Calls) : LET c == Calls[ci] IN
          /\ Len(c.queries) = 2
          /\ Cardinality(c.queries[2].preds) = 5
          /\ c.params.page = 2

\* C5: a fetch for page p requests the inclusive range
\* [(p-1)*50, (p-1)*50+49]; the ranges of consecutive pages are adjacent,
\* disjoint and hold 50 positions each.
C5_PageRanges ==
    /\ \A ci \in 1..Len(Calls) : LET c == Calls[ci] IN
          \A j \in 1..Len(c.queries) :
              c.queries[j].range = <<(c.params.page - 1) * 50, (c.params.page - 1) * 50 + 49>>
    /\ \A ci, di \in 1..Len(Calls) : LET c == Calls[ci] d == Calls[di] IN
          (c.queries # <<>> /\ d.queries # <<>> /\ d.params.page = c.params.page + 1) =>
              /\ d.queries[1].range[1] = c.queries[1].range[2] + 1
              /\ c.queries[1].range[2] - c.queries[1].range[1] + 1 = 50
              /\ d.queries[1].range[2] - d.queries[1].range[1] + 1 = 50

C5_ConsecutivePagesRequested ==
    \E ci, di \in 1..Len(Calls) : LET c == Calls[ci] d == Calls[di] IN
        /\ c.queries # <<>>
        /\ d.queries # <<>>
        /\ c.params.page = 2
        /\ d.params.page = 3
        /\ c.queries[1].range = <<50, 99>>
        /\ d.queries[1].range = <<100, 149>>

\* the filter predicates of a query: all but the fallback's not-null test
FilterPreds(q) == q.preds \ {NotIsNull("triaged_at")}

PredsFor(p, scoreFilters) ==
    (IF scoreFilters THEN {Gte("lead_score", p.minScore)} ELSE {})
    \cup (IF p.severity # "all" THEN {Eq("severity", p.severity)} ELSE {})
    \cup (IF p.caseType # "all" THEN {Eq("case_type", p.caseType)} ELSE {})
    \cup (IF p.status # Null /\ p.status # "all" THEN {Eq("status", p.status)} ELSE {})

\* C6 as stated: the predicates of a query are lead_score >= minScore when
\* minScore is non-zero, and an equality for each of severity, case type and
\* (when supplied) status that is not "all".
C6_PredicatesWhenNonZero ==
    \A ci \in 1..Len(Calls) : LET c == Calls[ci] IN
        \A j \in 1..Len(c.queries) :
            FilterPreds(c.queries[j]) = PredsFor(c.params, c.params.minScore # 0)

\* C6, amended: the predicates of a query are lead_score >= minScore when
\* minScore is greater than zero, and an equality for each of severity,
\* case type and (when supplied) status that is not "all"; nothing else.
C6_PredicatesWhenPositive ==
    \A ci \in 1..Len(Calls) : LET c == Calls[ci] IN
        \A j \in 1..Len(c.queries) :
            FilterPreds(c.queries[j]) = PredsFor(c.params, c.params.minScore > 0)

C6_NegativeScoreQueried ==
    \E ci \in 1..Len(Calls) : LET c == Calls[ci] IN
        /\ c.queries # <<>>
        /\ c.params.minScore < 0
        /\ c.params.severity = "fatal"
        /\ c.queries[1].preds = {Eq("severity", "fatal")}
        /\ c.answers # <<>>

\* a record matches the filter values of p
MatchesFilters(a, p) ==
    /\ p.minScore > 0 => (a.lead_score # <<>> /\ a.lead_score[1] >= p.minScore)
    /\ p.severity # "all" => a.severity = p.severity
    /\ p.caseType # "all" => a.case_type = p.caseType
    /\ (p.status # Null /\ p.status # "all") => a.status = p.status

\* the triaged records that match the filter values of p
MatchingIdsOf ==
    [ms \in MinScores, sev \in SEVERITIES, ct \in CASE_TYPES, st \in STATUSES \cup {Null} |->
        {i \in ArticleIds :
            /\ Article[i].triaged_at # <<>>
            /\ MatchesFilters(Article[i], Params(ms, sev, ct, st, 1))}] @@ <<>>

MatchingIds(p) == MatchingIdsOf[p.minScore, p.severity, p.caseType, p.status]

\* C7: for fixed filters and unchanged data, the count a fetch returns from
\* its queries is the number of records matching the filters, and it is the
\* same for every page requested, pages past the last one included.
C7_CountIsMatchTotal ==
    variant \in Variants =>
        \A o \in ReturnedOutcomes :
            (o.queries # <<>> /\ o.out.kind = "return") =>
                /\ o.out.count = Cardinality(MatchingIds(o.params))
                /\ \A o2 \in ReturnedOutcomes :
                      (o2.queries # <<>> /\ o2.out.kind = "return")
                      => o2.out.count = o.out.count

C7_PagePastTheLast ==
    /\ variant \in Variants
    /\ \E o, o1 \in ReturnedOutcomes :
          /\ o.params.page = 3
          /\ o.out.kind = "return"
          /\ o.out.data = <<>>
          /\ o.out.count > 0
          /\ o1.params.page = 1
          /\ o1.out.kind = "return"
          /\ Len(o1.out.data) = o.out.count

\* C8 as stated: with 120 records matching {minScore 70, severity fatal},
\* page 1 returns 50 rows with count 120 from the view, page 3 returns the
\* remaining 20 rows, and pages 1, 2 and 3 together are the 120 matching
\* records, none repeated and none missing.
C8_ThreePagesAreTheMatches ==
    (/\ variant \in Variants
     /\ minScore = 70 /\ severity = "fatal" /\ caseType = "all" /\ status = "all"
     /\ \A pg \in 1..3 : /\ returned[pg] # <<>>
                          /\ returned[pg][1].answers # <<>>
                          /\ returned[pg][1].answers[1].error = Null)
    => LET p1 == returned[1][1].out
           p2 == returned[2][1].out
           p3 == returned[3][1].out
           all == p1.data \o p2.data \o p3.data
       IN  /\ Len(p1.data) = 50
           /\ p1.count = 120
           /\ p1.source = "v_triage_live"
           /\ Len(p3.data) = 20
           /\ Len(all) = 120
           /\ {all[k] : k \in 1..Len(all)} = MatchingIds(returned[1][1].params)
           /\ \A j, k \in 1..Len(all) : j # k => all[j] # all[k]

\* C2 as stated: when the view query fails and the articles query succeeds,
\* the fetch returns the articles rows and count tagged articles, and the
\* page shows no error once that load has completed.
C2_FallbackShowsNoError ==
    (/\ res # <<>>
     /\ Len(res[1].answers) = 2
     /\ res[1].answers[1].error # Null
     /\ res[1].answers[2].error = Null)
    => /\ res[1].out.kind = "return"
       /\ res[1].out.source = "articles"
       /\ res[1].out.data = res[1].answers[2].data
       /\ res[1].out.count = res[1].answers[2].count
       /\ rows = res[1].out.data
       /\ err = <<>>

\* C9 as stated: a change of a filter resets page to 1 before the next
\* fetch is issued: every fetch issued on a filter change is for page 1.
C9_FilterChangeFetchesPageOne ==
    [][filterVars' # filterVars =>
          \A k \in (Len(inflight) + 1)..Len(inflight') :
              inflight'[k].params.page = 1]_vars

\* C10: when the fetch of a load fails, rows become empty, the total count
\* zero and err the failure message; the filters, the search text and the
\* auto-refresh setting stay as they were.
C10_FailedLoad ==
    [][(res' # <<>> /\ res'[1].out.kind = "throw") =>
          /\ rows' = <<>>
          /\ totalCount' = 0
          /\ err' = res'[1].out.message
          /\ UNCHANGED <<minScore, severity, caseType, status, search, autoRefresh>>]_vars

C10_FailedAfterRowsShown ==
    /\ res # <<>>
    /\ res[1].out.kind = "throw"
    /\ rows = <<>>
    /\ totalCount = 0
    /\ err = res[1].out.message
    /\ err # <<>>
    /\ <<minScore, severity, caseType, status, search, autoRefresh>>
         # <<70, "all", "all", "all", "", TRUE>>

\* C11: with the URL or the key missing, or without a window, getSupabase
\* returns null, and every fetch returns no rows and count 0 without a query
\* and without an error, so that the page shows no error.
C11_NoClientNoError ==
    (~hasEnv \/ ~hasWindow) =>
        /\ getSupabase.client = Null
        /\ _client = Null
        /\ \A i \in 1..Len(Calls) :
              Calls[i].queries = <<>> /\ Calls[i].answers = <<>>
        /\ \A k \in 1..Len(Done) :
              /\ Done[k].out.kind = "return"
              /\ Done[k].out.data = <<>>
              /\ Done[k].out.count = 0
        /\ res # <<>> =>
              /\ res[1].queries = <<>>
              /\ res[1].out.kind = "return"
              /\ res[1].out.data = <<>>
              /\ res[1].out.count = 0
        /\ rows = <<>>
        /\ totalCount = 0
        /\ err = <<>>

C11_LoadedWithoutClient ==
    /\ ~hasEnv
    /\ issued = 2
    /\ res # <<>>
    /\ res[1].id = 2
    /\ res[1].out.kind = "return"
    /\ loading = FALSE
    /\ err = <<>>

\* C12: one call of the fetch issues at most one query against the view and
\* at most one against articles, the articles query only after the view
\* query has failed.
C12_SingleAttempt ==
    \A ci \in 1..Len(Calls) : LET c == Calls[ci] IN
        /\ Len(c.queries) <= 2
        /\ Len(c.answers) <= Len(c.queries)
        /\ c.queries # <<>> => c.queries[1].table = "v_triage_live"
        /\ Len(c.queries) = 2 =>
              /\ c.queries[2].table = "articles"
              /\ c.answers # <<>>
              /\ c.answers[1].error # Null

C12_BothQueriesAnswered ==
    \E k \in 1..Len(Done) :
        /\ Len(Done[k].queries) = 2
        /\ Len(Done[k].answers) = 2
        /\ Done[k].answers[2].error = Null

\* C13 as stated: with unchanged data and the view answering, two calls
\* with the same parameters return the same rows, count and source tag,
\* whether they run one after the other or interleaved.
C13_SameCallSameResult ==
    \A j, k \in 1..Len(Done) :
        (/\ Done[j].params = Done[k].params
         /\ Done[j].answers # <<>> /\ Done[j].answers[1].error = Null
         /\ Done[k].answers # <<>> /\ Done[k].answers[1].error = Null)
        => /\ Done[j].out.data = Done[k].out.data
           /\ Done[j].out.count = Done[k].out.count
           /\ Done[j].out.source = Done[k].out.source

\* the triage timestamp as the ordering sees it, none being the lowest
TriageKey(i) == IF Article[i].triaged_at = <<>> THEN -1 ELSE Article[i].triaged_at[1]

\* C14: the rows of every fetched page are in descending order of triage
\* timestamp, a record without one after every record that has one.
C14_PagesDescending ==
    \A k \in 1..Len(Done) :
        LET d == Done[k].out.data
        IN  \A j \in 1..(Len(d) - 1) : TriageKey(d[j]) >= TriageKey(d[j + 1])

C14_FullPagesFetched ==
    \E j, k \in 1..Len(Done) :
        /\ Done[j].out.source = "v_triage_live"
        /\ Len(Done[j].out.data) = 50
        /\ Done[k].out.source = "articles"
        /\ Len(Done[k].out.data) = 50

\* C15 as stated: when a fetch resolves after a newer fetch was issued, its
\* result does not change the displayed rows, count, source or error.
C15_SupersededIgnored ==
    [][(res' # <<>> /\ res'[1].id < issued) =>
          UNCHANGED <<rows, totalCount, source, err>>]_vars

\* C16: when fetches overlap and succeed, the displayed rows, count and
\* source are those of the fetch that resolved last, in whatever order the
\* fetches were issued: each fetch that returns overwrites them.
C16_LastResolvedShown ==
    [][(res' # <<>> /\ res'[1].out.kind = "return") =>
          /\ rows' = res'[1].out.data
          /\ totalCount' = res'[1].out.count
          /\ source' = res'[1].out.source]_vars

\* the first of two fetches resolved after the second had succeeded, and
\* its result for other parameters is what is displayed
C16_OlderResolvedLast ==
    /\ mounted
    /\ issued = 2
    /\ inflight = <<>>
    /\ res # <<>>
    /\ res[1].id = 1
    /\ res[1].out.kind = "return"
    /\ res[1].params # LoadParams(minScore, severity, caseType, status, page)
    /\ err = <<>>
    /\ rows = res[1].out.data
    /\ rows # <<>>

\* C17 as stated: after a fetch has failed with both queries failing, no
\* fetch is issued until the user presses refresh, changes a filter or
\* changes the page.
C17_NoFetchUntilUserActs ==
    [][(err # <<>> /\ issued' > issued) => last' \in {"refresh", "filter", "page"}]_vars

\* C17, amended: the step in which a fetch fails with both queries failing
\* issues no fetch, and after it a fetch is issued only when the user
\* presses refresh, changes a filter or changes the page, when the refresh
\* interval fires, or when a load still under way returns and snaps the page
\* back to 1.
C17_NoRetryOfItsOwn ==
    [][/\ (res' # <<>> /\ res'[1].out.kind = "throw") => issued' = issued
       /\ (err # <<>> /\ issued' > issued) =>
              \/ last' \in {"refresh", "filter", "page", "tick"}
              \/ /\ last' = "response"
                 /\ res' # <<>>
                 /\ res'[1].out.kind = "return"
                 /\ res'[1].params.page > TotalPages(res'[1].out.count)
                 /\ page # 1
                 /\ page' = 1]_vars

\* the first fetch failed and the interval has started the second
C17_TickAfterFailure ==
    /\ last = "tick"
    /\ issued = 2
    /\ Len(inflight) = 1
    /\ inflight[1].id = 2
    /\ rows = <<>>
    /\ source = Null
    /\ err = <<>>
    /\ hasEnv

\* C18: at most one refresh interval is set at any time, and only while
\* auto-refresh is on and the page is mounted; no interval fires and starts
\* a fetch with auto-refresh off or the page dismantled.
C18_OneTimerWhileEnabled ==
    /\ [](Cardinality(timers) <= 1 /\ (timers # {} => autoRefresh /\ mounted))
    /\ [][last' = "tick" => (autoRefresh /\ mounted /\ issued' = issued + 1)]_vars

C18_TimerTornDown ==
    /\ mounted
    /\ last = "auto"
    /\ ~autoRefresh
    /\ timers = {}
    /\ events = 2

\* the fetches issued by the step
NewFetches == {inflight'[k].params : k \in (Len(inflight) + 1)..Len(inflight')}

\* C19: the mount, a filter change, a click on refresh, a page change and a
\* firing of the refresh interval each issue a fetch with the filter values
\* of that moment, and a filter change issues one with the new filter values
\* and page 1.
C19_EventsFetch ==
    [][last' \in {"mount", "filter", "refresh", "page", "tick"} =>
          /\ LoadParams(minScore', severity', caseType', status', page') \in NewFetches
          /\ issued' > issued]_vars

C19_FilterChangeOnLaterPage ==
    /\ last = "filter"
    /\ page = 1
    /\ Len(inflight) >= 2
    /\ inflight[Len(inflight)].params =
           LoadParams(minScore, severity, caseType, status, 1)
    /\ inflight[Len(inflight) - 1].params =
           LoadParams(minScore, severity, caseType, status, 2)

\* C20 as stated: in every page variant a failed view query is never
\* returned as a successful empty result: the fetch returns the rows of the
\* articles query or throws. This includes fetchPaged.
C20_FailureNotEmptySuccess ==
    \A k \in 1..Len(Done) :
        LET o == Done[k]
        IN  (o.answers # <<>> /\ o.answers[1].error # Null) =>
                \/ o.out.kind = "throw"
                \/ /\ o.out.kind = "return"
                   /\ Len(o.answers) = 2
                   /\ o.queries[2].table = "articles"
                   /\ o.out.data = o.answers[2].data

\* the rows the table of the page shows
Shown == filtered(variant, rows, search, sortKey, sortDir)

\* the haystack as described: title, publisher domain, triage reasons,
\* people, and status on the page with the status filter, a missing field
\* being the empty text
DescribedHay(v, i) == IF v = "status" THEN HayStatus(i) ELSE HayBasic(i)

\* C21 as stated: with a search text that is empty or only whitespace the
\* table shows every fetched row, and otherwise exactly the rows whose
\* haystack contains the search text, lowercased and without surrounding
\* whitespace, on every page variant.
C21_SearchShowsTheMatches ==
    LET s == toLowerCase(trim(search))
        shown == {Shown[k] : k \in 1..Len(Shown)}
    IN  IF s = <<>>
        THEN shown = {rows[k] : k \in 1..Len(rows)}
        ELSE shown = {rows[k] : k \in {j \in 1..Len(rows) :
                                          includes(DescribedHay(variant, rows[j]), s)}}

\* the sort key of row i is missing
KeyMissing(i) ==
    IF sortKey = "lead_score" THEN Article[i].lead_score = <<>>
    ELSE Article[i].triaged_at = <<>>

\* C22 as stated: sorted descending, every shown row with a missing
\* lead_score (or triaged_at, when that is the key) comes after every row
\* that has one, and sorted ascending before, on every page variant that
\* sorts and for every value of the key.
C22_MissingKeyIsLowest ==
    \A j, k \in 1..Len(Shown) :
        j < k =>
            IF sortDir = "desc"
            THEN ~(KeyMissing(Shown[j]) /\ ~KeyMissing(Shown[k]))
            ELSE ~(~KeyMissing(Shown[j]) /\ KeyMissing(Shown[k]))

\* C23: a change of the search text, the sort key or the sort direction
\* issues no fetch and leaves the fetched rows, the total count, the page,
\* the filters and the source as they were.
C23_ViewChangeFetchesNothing ==
    [][last' \in {"search", "sort"} =>
          UNCHANGED <<rows, totalCount, page, minScore, severity, caseType, status,
                      source, inflight, issued>>]_vars

\* rows are shown, a search text was typed and then the table was sorted by
\* score; the fetch of the mount is the only one issued
C23_SearchedThenSorted ==
    /\ last = "sort"
    /\ sortKey = "lead_score"
    /\ search = T_truck
    /\ rows # <<>>
    /\ issued = 1

\* what a fetch with parameters p can return
ReturnsOf(v, p) ==
    IF getSupabase.client = Null THEN {NoClientReturn(v)}
    ELSE {ViewReturn(Success(ViewQuery(v, p), tie)) : tie \in TieOrders}
         \cup {ArticlesReturn(Success(ArticlesQuery(v, p), tie)) : tie \in TieOrders}

\* C24 as stated: with no fetch in flight, the rows, the count and the
\* source a mounted page displays from a fetch are what a fetch with the
\* filters and the page now selected returns.
C24_SettledShowsSelection ==
    (mounted /\ inflight = <<>> /\ source # Null) =>
        \E o \in ReturnsOf(variant, LoadParams(minScore, severity, caseType, status, page)) :
            /\ rows = o.data
            /\ totalCount = o.count
            /\ source = o.source

\* C25 as stated: whenever the error message is set, the displayed rows are
\* empty, the total count is 0 and the source is null.
C25_ErrorMeansEmpty ==
    err # <<>> => (rows = <<>> /\ totalCount = 0 /\ source = Null)

\* C26 as stated: while a fetch started by load is in flight on a mounted
\* page, loading is TRUE.
C26_LoadingWhileInFlight ==
    (mounted /\ inflight # <<>>) => loading

\* C27 as stated: the page number is an integer and at least 1, and the
\* page number the Jump input sets is an integer from 1 to totalPages, 1 for
\* an empty or zero input.
C27_PageIsWholeAndInRange ==
    /\ page \in Nat
    /\ page >= 1
    /\ jumped # <<>> =>
          /\ jumped[2] % 2 = 0
          /\ jumped[2] >= 2
          /\ jumped[2] <= 2 * totalPages
          /\ jumped[1] = 0 => jumped[2] = 2

\* the parameters of the fetches under way after the step
FetchesAfter == {inflight'[k].params : k \in 1..Len(inflight')}

\* C28 as stated: when a fetch returns a count for which the page it was
\* issued for is past the last page, the page is set to 1 and a fetch for
\* page 1 follows, issued by the step or under way after it; when the page
\* it was issued for is in range, the page is not changed.
C28_SnapBackRefetches ==
    [][(res' # <<>> /\ res'[1].out.kind = "return") =>
          IF res'[1].params.page > TotalPages(res'[1].out.count)
          THEN /\ page' = 1
               /\ LoadParams(minScore, severity, caseType, status, 1) \in FetchesAfter
          ELSE page' = page]_vars

\* the parameters of the fetches the step issues
FetchesIssued ==
    {inflight'[k].params : k \in {j \in 1..Len(inflight') : inflight'[j].id > issued}}

\* C29: a tick of the refresh interval and a click on refresh each issue one
\* fetch, with the filter values and the page number of that moment.
C29_TickAndRefreshUseCurrent ==
    [][last' \in {"tick", "refresh"} =>
          /\ issued' = issued + 1
          /\ FetchesIssued = {LoadParams(minScore, severity, caseType, status, page)}]_vars

\* the interval fired after the min score was changed, and the fetch it
\* started has the new min score
C29_TickAfterFilterChange ==
    /\ last = "tick"
    /\ events = 2
    /\ minScore = 0
    /\ inflight # <<>>
    /\ inflight[Len(inflight)].id = issued
    /\ inflight[Len(inflight)].params.minScore = 0

\* the cached client after the k-th direct call of getSupabase
CacheAfter(k) == IF k < Len(got) THEN got[k + 1].cached ELSE _client

\* C30: over the getSupabase calls in a browser the client is constructed
\* at most once; every call after one that returned a client returns that
\* same client; a call that finds no cached client and the URL or the key
\* missing returns null and caches nothing, and a call that finds no cached
\* client and both present constructs the client and returns it.
C30_ClientConstructedOnce ==
    /\ created <= 1
    /\ \A j, k \in 1..Len(got) :
          (j < k /\ got[j].client # Null) => got[k].client = got[j].client
    /\ \A k \in 1..Len(got) :
          got[k].cached = Null =>
              IF got[k].url /\ got[k].anon
              THEN got[k].client # Null /\ CacheAfter(k) = got[k].client
              ELSE got[k].client = Null /\ CacheAfter(k) = Null

\* a call without the key returned null, a later call with both constructed
\* the client, and a call after that, again without the URL, returned it
C30_NullThenClientThenSame ==
    /\ Len(got) >= 3
    /\ got[1].url /\ ~got[1].anon
    /\ got[1].client = Null
    /\ got[2].url /\ got[2].anon
    /\ got[2].client # Null
    /\ ~got[3].url
    /\ got[3].client = got[2].client
    /\ created = 1

====
